---- MODULE Spec2Model ----
(***************************************************************************)
(* The per-frame job scheduler of the Aura engine (JobSystem), the frame   *)
(* loop that drives it and the network replicator that runs behind its     *)
(* barrier.                                                                *)
(*                                                                         *)
(* JobSystem keeps a queue.Queue: put() appends an item and increments the *)
(* queue's unfinished-task count, get() removes the head, task_done()      *)
(* decrements the count and join() blocks until the count is zero.         *)
(*                                                                         *)
(* Positions and velocities are integer vectors in model units: one unit   *)
(* of velocity is 9.8*dt, one unit of position is half of what one unit of *)
(* velocity moves in dt, so that the sprint multiplier 2.5 stays integral. *)
(***************************************************************************)
EXTENDS Integers, Sequences, FiniteSets, TLC

\* ------------------------------------------------------------------ bounds
MaxWorkers == 2
MaxFrames == 3
MaxJobs == 2
MaxBatches == 1

\* --------------------------------------------------------- program constants
GravityStep == 1
MoveMultNormal == 2
MoveMultSprint == 5

VARIABLES
    num_workers,   \* JobSystem(num_workers): the number of threads started
    wpc,           \* per worker: where its _worker_loop stands
    wjob,          \* per worker: the job it dequeued
    wi,            \* per worker: run_physics_step's loop index into actors
    wphase,        \* per worker: run_physics_step's place inside one iteration
    queue,         \* self.queue: the items not yet dequeued, FIFO
    unfinished,    \* self.queue.unfinished_tasks
    dpc,           \* the driver thread's position
    frame,         \* the frame (or batch) the driver is in
    actors,        \* engine.actors, in insertion order
    player,        \* the index in actors of the player object
    packets,       \* the list the last sync_all_actors returned
    counter,       \* the shared counter the pool scenario's jobs increment
    submitted,     \* history: every job enqueued so far, in order
    exec_count,    \* history: per job, how many times a worker dequeued and ran it
    completed,     \* history: the jobs task_done was called for
    faulted,       \* history: the jobs whose body raised
    drained,       \* history: the jobs enqueued before a drain that returned
    frame_base,    \* history: the registry when the frame's jobs were submitted
    synced_base,   \* history: frame_base of the frame the last sync belongs to
    syncs,         \* history: the number of sync_all_actors calls
    joins,         \* history: the number of wait_for_completion calls returned
    frame_jobs,    \* history: the jobs submitted in the current frame, in order
    active_weapon_id, \* WeaponManager.active_weapon_id
    last_fire_time,   \* WeaponManager.last_fire_time, in ticks
    clock,            \* what time.time() returns, in ticks
    chests,           \* MapManager.loot_chests
    callers,          \* per thread inside try_fire: its position and locals
    player_direction, \* the aim vector the caller of try_fire holds
    calls,            \* history: the shoot_raycast calls the latest call made
    attempt,          \* history: the latest WeaponManager call and its outcome
    action_buttons    \* InputManager.action_buttons: is 'shoot' set

vars == <<num_workers, wpc, wjob, wi, wphase, queue, unfinished, dpc, frame,
          actors, player, packets, counter, submitted, exec_count, completed,
          faulted, drained, frame_base, synced_base, syncs, joins, frame_jobs,
          active_weapon_id, last_fire_time, clock, chests, callers,
          player_direction, calls, attempt, action_buttons>>

weapon_vars == <<active_weapon_id, last_fire_time, clock, chests, callers,
                 player_direction, calls, attempt, action_buttons>>

Workers == 1..MaxWorkers
next_id == Len(submitted) + 1
MaxIds == IF MaxBatches * MaxJobs > MaxFrames * 2
          THEN MaxBatches * MaxJobs ELSE MaxFrames * 2
JobIds == 1..MaxIds

\* ------------------------------------------------------------------ actors
Absent == "<absent>"

\* AuraObject of the frame-loop demo: __init__ takes is_static and is_bot and
\* stores neither; active_weapon_id is set for the network sync.
DemoObject(name, position, velocity, health) ==
    [name |-> name, position |-> position, linear_velocity |-> velocity,
     has_is_static |-> FALSE, is_static |-> FALSE, is_sprinting |-> FALSE,
     is_bot |-> FALSE, health |-> health, active_weapon_id |-> "01_PLASMA_RIFLE"]

\* AuraObject of the weapon test: stores is_static and is_bot, has no
\* is_sprinting (run_physics_step there applies no multiplier) and no
\* active_weapon_id.
MockObject(name, position, velocity, is_static, health, is_bot) ==
    [name |-> name, position |-> position, linear_velocity |-> velocity,
     has_is_static |-> TRUE, is_static |-> is_static, is_sprinting |-> FALSE,
     is_bot |-> is_bot, health |-> health, active_weapon_id |-> Absent]

\* The registry of the frame-loop demo: the one player object.
DemoScene == <<DemoObject("MasterPlayer", <<10, 10, 10>>, <<1, 0, 0>>, 100)>>

\* The registry of the weapon test: the player and one bot.
ArenaScene ==
    <<MockObject("MasterPlayer", <<0, 10, 0>>, <<0, 0, 0>>, FALSE, 100, FALSE),
      MockObject("OMEGA-BOT-9000", <<0, 10, -5>>, <<0, 0, 0>>, FALSE, 100, TRUE)>>

\* The registry of the build test once build_wall has appended a static wall
\* two units in front of the moving player.
BuiltScene ==
    <<MockObject("MasterPlayer", <<0, 10, 0>>, <<1, 0, 2>>, FALSE, 100, FALSE),
      MockObject("Wall_MasterPlayer", <<0, 10, 2>>, <<0, 0, 0>>, TRUE, 100, FALSE)>>

Scenes == {DemoScene, ArenaScene, BuiltScene}

\* ------------------------------------------------------------------- jobs
NoJob == [id |-> 0, func |-> "none", frame |-> 0, arg |-> 0]

Job(id, func, f, arg) == [id |-> id, func |-> func, frame |-> f, arg |-> arg]

\* The callables the pool scenario hands to add_job: one that returns after
\* incrementing the shared counter, one that raises.
JobBodies == {"increment", "raise"}

\* ---------------------------------------------------------------- physics
VecAdd(a, b) == <<a[1] + b[1], a[2] + b[2], a[3] + b[3]>>
VecScale(a, k) == <<a[1] * k, a[2] * k, a[3] * k>>

move_mult(actor) == IF actor.is_sprinting THEN MoveMultSprint ELSE MoveMultNormal

\* actor.linear_velocity[1] -= 9.8 * dt
ApplyGravity(actor) ==
    [actor EXCEPT !.linear_velocity =
        <<@[1], @[2] - GravityStep, @[3]>>]

\* actor.position += actor.linear_velocity * dt * move_mult
Integrate(actor) ==
    [actor EXCEPT !.position =
        VecAdd(@, VecScale(actor.linear_velocity, move_mult(actor)))]

\* Mutant of run_physics_step: the step integrates every actor, static or not.
run_physics_step_unfiltered(reg) ==
    [i \in 1..Len(reg) |-> Integrate(ApplyGravity(reg[i]))]

\* run_physics_step run alone from start to end over a registry in which
\* every actor carries is_static.
run_physics_step(reg) ==
    [i \in 1..Len(reg) |->
        IF reg[i].is_static THEN reg[i] ELSE Integrate(ApplyGravity(reg[i]))]

\* ------------------------------------------------------------- replication
getattr_weapon(actor) ==
    IF actor.active_weapon_id = Absent THEN "None" ELSE actor.active_weapon_id

\* A list held by a packet is either a list of its own or the array of the
\* actor named in array_of, whose elements are then read through the actor.
OwnList == "<own>"

\* Mutant of tolist: the packet keeps the actor's array itself.
the_array(actor, field) ==
    [array_of |-> actor.name, field |-> field, items |-> actor[field]]

\* ndarray.tolist(): a new list of the elements the array holds now.
tolist(actor, field) ==
    [array_of |-> OwnList, field |-> field, items |-> actor[field]]

\* What a reader of the list finds in it when the registry is reg.
ListItems(list, reg) ==
    IF list.array_of = OwnList THEN list.items
    ELSE LET i == CHOOSE k \in 1..Len(reg) : reg[k].name = list.array_of
         IN reg[i][list.field]

\* NetworkAuthorityManager.generate_state_packet of the replication module.
generate_state_packet(actor) ==
    [id |-> actor.name, pos |-> tolist(actor, "position"),
     vel |-> tolist(actor, "linear_velocity"),
     health |-> actor.health, weapon |-> getattr_weapon(actor)]

\* Mutant of sync_all_actors: the packets of the newest actors come first.
sync_newest_first(reg) ==
    [i \in 1..Len(reg) |-> generate_state_packet(reg[Len(reg) + 1 - i])]

sync_all_actors(reg) == [i \in 1..Len(reg) |-> generate_state_packet(reg[i])]

\* NetworkAuthorityManager of the frame-loop demo: its packet has no 'vel'.
frame_loop_state_packet(actor) ==
    [id |-> actor.name, pos |-> tolist(actor, "position"),
     health |-> actor.health, weapon |-> getattr_weapon(actor)]

frame_loop_sync_all_actors(reg) ==
    [i \in 1..Len(reg) |-> frame_loop_state_packet(reg[i])]

\* ------------------------------------------------------------ the job queue
\* Mutant of queue_get: get() hands out the head and leaves it in the queue.
queue_peek(q) == q

\* queue.Queue.get: what is left of the queue once the head is handed out.
queue_get(q) == Tail(q)

\* Mutant of task_done: the count is not decremented.
task_done_forgotten(n) == n

\* queue.Queue.task_done: the unfinished-task count after one task is marked.
task_done(n) == n - 1

\* Mutant of join_may_return: the barrier checks that the queue is empty
\* instead of counting unfinished tasks.
join_on_empty_queue == queue = <<>>

\* Mutant of join_may_return: the barrier does not wait at all.
join_no_wait == TRUE

\* Mutant of join_may_return: the barrier sleeps on the condition first and
\* looks at the count only once a task_done has woken it.
join_after_task_done == unfinished = 0 /\ completed # {}

\* queue.Queue.join: the condition under which the blocked caller resumes.
join_may_return == unfinished = 0

\* Mutant of add_job: the item is enqueued without being counted as unfinished.
add_job_uncounted(func, arg) ==
    LET job == Job(next_id, func, frame, arg) IN
    /\ queue' = Append(queue, job)
    /\ unfinished' = unfinished
    /\ submitted' = Append(submitted, job)
    /\ frame_jobs' = Append(frame_jobs, job)

\* JobSystem.add_job: self.queue.put((job_func, args, kwargs)).
add_job(func, arg) ==
    LET job == Job(next_id, func, frame, arg) IN
    /\ queue' = Append(queue, job)
    /\ unfinished' = unfinished + 1
    /\ submitted' = Append(submitted, job)
    /\ frame_jobs' = Append(frame_jobs, job)

\* ---------------------------------------------------------------- weapons
\* One tick of the clock, in milliseconds: the readings 0 s, 0.05 s and 0.15 s
\* are ticks 0, 1 and 3.
TickMs == 50

\* WEAPON_MASTER_LIST of the weapon test; spread is in tenths of a unit.
WEAPON_MASTER_LIST ==
    ("01_PLASMA_RIFLE" :>
        [damage |-> 55, rpm |-> 450, spread |-> 0, mode |-> "AUTO", projectiles |-> 1])
    @@ ("02_OMEGA_SHOTGUN" :>
        [damage |-> 15, rpm |-> 90, spread |-> 15, mode |-> "SEMI", projectiles |-> 8])
    @@ ("03_RAIL_CANNON" :>
        [damage |-> 300, rpm |-> 30, spread |-> 0, mode |-> "SINGLE", projectiles |-> 1])
    @@ ("04_EMP_GRENADE" :>
        [damage |-> 0, rpm |-> 10, spread |-> 0, mode |-> "SINGLE", projectiles |-> 1])

\* An id that is a key of no weapon table.
UnlistedId == "05_NOT_LISTED"

\* The ids handed to switch_weapon.
RequestedIds == DOMAIN WEAPON_MASTER_LIST \cup {UnlistedId}

\* A reading of time.time() late enough after the epoch for every weapon of
\* the table to be past its delay since time 0.0: 60 s / 10 rpm, in ticks.
ClockStart == 60000 \div (10 * TickMs)

\* The two threads of the concurrent-fire scenario.
Callers == {"a", "b"}

IdleCaller == [pc |-> "idle", current_time |-> 0, weapon |-> "none", fired |-> FALSE]

\* Direction vectors are in half units, so that a spread of 1.5 is integral:
\* a vector of length 1.0 has squared length DirUnit * DirUnit.
DirUnit == 2

\* player_direction = np.array([0.0, 0.0, -1.0]) of process_actions
StraightAhead == <<0, 0, 0 - DirUnit>>

\* A direction as shoot_raycast receives it: the array v itself, or v
\* divided by its norm.
AsGiven(v) == [vec |-> v, normalized |-> FALSE]
Normalized(v) == [vec |-> v, normalized |-> TRUE]

NoAttempt ==
    [op |-> "none", time |-> 0, arg |-> "none", weapon |-> "none", before |-> 0,
     fired |-> FALSE, outcome |-> "none", aim |-> <<0, 0, 0>>]

\* WeaponManager.__init__, and InputManager.__init__ for the buttons
WeaponManagerInit ==
    /\ active_weapon_id = "01_PLASMA_RIFLE"
    /\ last_fire_time = 0
    /\ callers = [t \in Callers |-> IdleCaller]
    /\ calls = <<>>
    /\ attempt = NoAttempt
    /\ action_buttons = [shoot |-> FALSE]

\* ------------------------------------------------------------------ state
Init ==
    /\ num_workers \in 0..MaxWorkers
    /\ wpc = [w \in Workers |-> IF w <= num_workers THEN "get" ELSE "unstarted"]
    /\ wjob = [w \in Workers |-> NoJob]
    /\ wi = [w \in Workers |-> 0]
    /\ wphase = [w \in Workers |-> "none"]
    /\ queue = <<>>
    /\ unfinished = 0
    /\ dpc = "frame_start"
    /\ frame = 1
    /\ actors \in Scenes
    /\ player = 1
    /\ packets = <<>>
    /\ counter = 0
    /\ submitted = <<>>
    /\ exec_count = [j \in JobIds |-> 0]
    /\ completed = {}
    /\ faulted = {}
    /\ drained = {}
    /\ frame_base = actors
    /\ synced_base = actors
    /\ syncs = 0
    /\ joins = 0
    /\ frame_jobs = <<>>
    /\ WeaponManagerInit
    /\ player_direction = StraightAhead
    /\ clock = ClockStart
    /\ chests = <<>>

driver_vars == <<dpc, frame, packets, submitted, drained, frame_base, synced_base,
                 syncs, joins, frame_jobs>>
registry_vars == <<actors, player>>
history_vars == <<exec_count, completed, faulted>>

\* ------------------------------------------------------------ _worker_loop
\* Mutant of WorkerGet: the worker marks the task done as soon as it has
\* dequeued it, before the job body has run.
WorkerGetMarksEarly(w) ==
    /\ wpc[w] = "get"
    /\ queue # <<>>
    /\ wjob' = [wjob EXCEPT ![w] = Head(queue)]
    /\ queue' = queue_get(queue)
    /\ unfinished' = unfinished - 1
    /\ wpc' = [wpc EXCEPT ![w] = "call"]
    /\ wi' = [wi EXCEPT ![w] = 1]
    /\ wphase' = [wphase EXCEPT ![w] = "visit"]
    /\ exec_count' = [exec_count EXCEPT ![Head(queue).id] = @ + 1]
    /\ UNCHANGED <<num_workers, counter, completed, faulted>>
    /\ UNCHANGED <<driver_vars, registry_vars>>
    /\ UNCHANGED weapon_vars

\* self.queue.get(timeout=0.1) hands out the head; job_func(*args) starts.
WorkerGet(w) ==
    /\ wpc[w] = "get"
    /\ queue # <<>>
    /\ wjob' = [wjob EXCEPT ![w] = Head(queue)]
    /\ queue' = queue_get(queue)
    /\ wpc' = [wpc EXCEPT ![w] = "call"]
    /\ wi' = [wi EXCEPT ![w] = 1]
    /\ wphase' = [wphase EXCEPT ![w] = "visit"]
    /\ exec_count' = [exec_count EXCEPT ![Head(queue).id] = @ + 1]
    /\ UNCHANGED <<num_workers, unfinished, counter, completed, faulted>>
    /\ UNCHANGED <<driver_vars, registry_vars>>
    /\ UNCHANGED weapon_vars

\* self.queue.get(timeout=0.1) finds nothing for 0.1 s and raises queue.Empty.
WorkerTimeout(w) ==
    /\ wpc[w] = "get"
    /\ queue = <<>>
    /\ wpc' = [wpc EXCEPT ![w] = "except"]
    /\ UNCHANGED <<num_workers, wjob, wi, wphase, queue, unfinished, counter>>
    /\ UNCHANGED <<driver_vars, registry_vars, history_vars>>
    /\ UNCHANGED weapon_vars

\* except queue.Empty: pass, and the loop calls get again.
WorkerRetry(w) ==
    /\ wpc[w] = "except"
    /\ wpc' = [wpc EXCEPT ![w] = "get"]
    /\ UNCHANGED <<num_workers, wjob, wi, wphase, queue, unfinished, counter>>
    /\ UNCHANGED <<driver_vars, registry_vars, history_vars>>
    /\ UNCHANGED weapon_vars

\* job_func raises something other than queue.Empty: nothing in the loop
\* catches it, the thread's target returns through the exception and the
\* thread ends; task_done is never reached for the job.
worker_raises(w) ==
    /\ wpc' = [wpc EXCEPT ![w] = "dead"]
    /\ faulted' = faulted \cup {wjob[w].id}
    /\ UNCHANGED <<num_workers, wjob, wi, wphase, queue, unfinished, counter>>
    /\ UNCHANGED <<exec_count, completed>>
    /\ UNCHANGED <<driver_vars, registry_vars>>
    /\ UNCHANGED weapon_vars

\* job_func returned: the loop goes on to self.queue.task_done().
body_returns(w) ==
    /\ wpc' = [wpc EXCEPT ![w] = "task_done"]
    /\ wphase' = [wphase EXCEPT ![w] = "none"]

\* self.queue.task_done(), then back to the top of the loop.
TaskDone(w) ==
    /\ wpc[w] = "task_done"
    /\ unfinished' = task_done(unfinished)
    /\ completed' = completed \cup {wjob[w].id}
    /\ wpc' = [wpc EXCEPT ![w] = "get"]
    /\ wjob' = [wjob EXCEPT ![w] = NoJob]
    /\ UNCHANGED <<num_workers, wi, wphase, queue, counter, exec_count, faulted>>
    /\ UNCHANGED <<driver_vars, registry_vars>>
    /\ UNCHANGED weapon_vars

\* -------------------------------------------------------- the job bodies
InPhysics(w) == wpc[w] = "call" /\ wjob[w].func = "physics"

\* for actor in self.actors: if not actor.is_static, on an object that has
\* no is_static attribute: AttributeError.
PhysicsFault(w) ==
    /\ InPhysics(w) /\ wphase[w] = "visit"
    /\ wi[w] <= Len(actors)
    /\ ~actors[wi[w]].has_is_static
    /\ worker_raises(w)

\* if not actor.is_static: a static actor is passed over.
PhysicsSkipStatic(w) ==
    /\ InPhysics(w) /\ wphase[w] = "visit"
    /\ wi[w] <= Len(actors)
    /\ actors[wi[w]].has_is_static /\ actors[wi[w]].is_static
    /\ wi' = [wi EXCEPT ![w] = @ + 1]
    /\ UNCHANGED <<num_workers, wpc, wjob, wphase, queue, unfinished, counter>>
    /\ UNCHANGED <<driver_vars, registry_vars, history_vars>>
    /\ UNCHANGED weapon_vars

\* actor.linear_velocity[1] -= 9.8 * dt
PhysicsVelocity(w) ==
    /\ InPhysics(w) /\ wphase[w] = "visit"
    /\ wi[w] <= Len(actors)
    /\ actors[wi[w]].has_is_static /\ ~actors[wi[w]].is_static
    /\ actors' = [actors EXCEPT ![wi[w]] = ApplyGravity(@)]
    /\ wphase' = [wphase EXCEPT ![w] = "move"]
    /\ UNCHANGED <<num_workers, wpc, wjob, wi, queue, unfinished, counter, player>>
    /\ UNCHANGED <<driver_vars, history_vars>>
    /\ UNCHANGED weapon_vars

\* actor.position += actor.linear_velocity * dt * move_mult
PhysicsMove(w) ==
    /\ InPhysics(w) /\ wphase[w] = "move"
    /\ actors' = [actors EXCEPT ![wi[w]] = Integrate(@)]
    /\ wphase' = [wphase EXCEPT ![w] = "visit"]
    /\ wi' = [wi EXCEPT ![w] = @ + 1]
    /\ UNCHANGED <<num_workers, wpc, wjob, queue, unfinished, counter, player>>
    /\ UNCHANGED <<driver_vars, history_vars>>
    /\ UNCHANGED weapon_vars

\* the for loop is exhausted and run_physics_step returns.
PhysicsReturn(w) ==
    /\ InPhysics(w) /\ wphase[w] = "visit"
    /\ wi[w] > Len(actors)
    /\ body_returns(w)
    /\ UNCHANGED <<num_workers, wjob, wi, queue, unfinished, counter>>
    /\ UNCHANGED <<driver_vars, registry_vars, history_vars>>
    /\ UNCHANGED weapon_vars

\* Mutant of StreamingRun: the job recentres the array it was given on the
\* zone it found nearest.
StreamingRunRecentring(w) ==
    /\ wpc[w] = "call" /\ wjob[w].func = "streaming"
    /\ actors' = [actors EXCEPT ![wjob[w].arg].position = <<0, 0, 0>>]
    /\ body_returns(w)
    /\ UNCHANGED <<num_workers, wjob, wi, queue, unfinished, counter>>
    /\ UNCHANGED <<driver_vars, player, history_vars>>
    /\ UNCHANGED weapon_vars

\* update_streaming_lod(player.position): unpacks the position it was given
\* (the player's own array, not a copy), computes a level of detail per zone
\* into a local and returns.
StreamingRun(w) ==
    /\ wpc[w] = "call" /\ wjob[w].func = "streaming"
    /\ body_returns(w)
    /\ UNCHANGED <<num_workers, wjob, wi, queue, unfinished, counter>>
    /\ UNCHANGED <<driver_vars, registry_vars, history_vars>>
    /\ UNCHANGED weapon_vars

\* a job of the pool scenario that increments the shared counter and returns.
IncrementRun(w) ==
    /\ wpc[w] = "call" /\ wjob[w].func = "increment"
    /\ counter' = counter + 1
    /\ body_returns(w)
    /\ UNCHANGED <<num_workers, wjob, wi, queue, unfinished>>
    /\ UNCHANGED <<driver_vars, registry_vars, history_vars>>
    /\ UNCHANGED weapon_vars

\* a job of the pool scenario whose body raises.
RaiseRun(w) ==
    /\ wpc[w] = "call" /\ wjob[w].func = "raise"
    /\ worker_raises(w)

\* ------------------------------------------------------- the frame driver
worker_vars == <<num_workers, wpc, wjob, wi, wphase>>

\* execute_frame_jobs, Task 1: self.add_job(engine.run_physics_step, dt)
AddPhysicsJob ==
    /\ dpc = "frame_start"
    /\ add_job("physics", 0)
    /\ frame_base' = actors
    /\ dpc' = "add_streaming"
    /\ UNCHANGED <<frame, packets, drained, synced_base, syncs, joins, counter>>
    /\ UNCHANGED <<worker_vars, registry_vars, history_vars>>
    /\ UNCHANGED weapon_vars

\* Mutant of AddStreamingJob: Task 2 (the batch AI update) is submitted too.
AddStreamingJobAfterBots ==
    /\ dpc = "add_streaming"
    /\ LET ai == Job(next_id, "update_all_bots", frame, player)
           lod == Job(next_id + 1, "streaming", frame, player)
       IN /\ queue' = queue \o <<ai, lod>>
          /\ unfinished' = unfinished + 2
          /\ submitted' = submitted \o <<ai, lod>>
          /\ frame_jobs' = frame_jobs \o <<ai, lod>>
    /\ dpc' = "join"
    /\ UNCHANGED <<frame, packets, drained, frame_base, synced_base, syncs, joins>>
    /\ UNCHANGED <<counter, worker_vars, registry_vars, history_vars>>
    /\ UNCHANGED weapon_vars

\* execute_frame_jobs, Task 3:
\* self.add_job(map_manager.update_streaming_lod, player.position)
AddStreamingJob ==
    /\ dpc = "add_streaming"
    /\ add_job("streaming", player)
    /\ dpc' = "join"
    /\ UNCHANGED <<frame, packets, drained, frame_base, synced_base, syncs, joins>>
    /\ UNCHANGED <<counter, worker_vars, registry_vars, history_vars>>
    /\ UNCHANGED weapon_vars

\* execute_frame_jobs: self.wait_for_completion() returns.
JoinReturn ==
    /\ dpc = "join"
    /\ join_may_return
    /\ drained' = 1..(next_id - 1)
    /\ joins' = joins + 1
    /\ dpc' = "sync"
    /\ UNCHANGED <<frame, packets, submitted, frame_base, synced_base, syncs>>
    /\ UNCHANGED <<frame_jobs, queue, unfinished, counter>>
    /\ UNCHANGED <<worker_vars, registry_vars, history_vars>>
    /\ UNCHANGED weapon_vars

\* the frame loop: network_manager.sync_all_actors(), then the next frame.
\* The list comprehension is taken as one step: the driver is the only
\* thread that runs it, and what it reads is written by job bodies alone.
Sync ==
    /\ dpc = "sync"
    /\ packets' = frame_loop_sync_all_actors(actors)
    /\ synced_base' = frame_base
    /\ syncs' = syncs + 1
    /\ IF frame < MaxFrames
       THEN frame' = frame + 1 /\ dpc' = "frame_start"
       ELSE frame' = frame /\ dpc' = "done"
    /\ frame_jobs' = <<>>
    /\ UNCHANGED <<submitted, drained, frame_base, joins, queue, unfinished, counter>>
    /\ UNCHANGED <<worker_vars, registry_vars, history_vars>>
    /\ UNCHANGED weapon_vars

WorkerLoop(w) ==
    \/ WorkerGet(w)
    \/ WorkerTimeout(w)
    \/ WorkerRetry(w)
    \/ TaskDone(w)

FrameJobBody(w) ==
    \/ PhysicsFault(w)
    \/ PhysicsSkipStatic(w)
    \/ PhysicsVelocity(w)
    \/ PhysicsMove(w)
    \/ PhysicsReturn(w)
    \/ StreamingRun(w)

Next ==
    \/ AddPhysicsJob
    \/ AddStreamingJob
    \/ JoinReturn
    \/ Sync
    \/ \E w \in Workers : WorkerLoop(w)
    \/ \E w \in Workers : FrameJobBody(w)

Spec == Init /\ [][Next]_vars

FrameDriver == AddPhysicsJob \/ AddStreamingJob \/ JoinReturn \/ Sync

\* The worker threads and the main thread are scheduled by the operating
\* system: each of them that can take a step eventually takes one.
FairSpec ==
    /\ Spec
    /\ \A w \in Workers : WF_vars(WorkerLoop(w) \/ FrameJobBody(w))
    /\ WF_vars(FrameDriver)

\* ------------------------------------------------------ the pool scenario
\* A driver that uses the pool alone: it hands any number of callables up to
\* MaxJobs to add_job, calls wait_for_completion, and starts over.
PoolInit ==
    /\ num_workers \in 0..MaxWorkers
    /\ wpc = [w \in Workers |-> IF w <= num_workers THEN "get" ELSE "unstarted"]
    /\ wjob = [w \in Workers |-> NoJob]
    /\ wi = [w \in Workers |-> 0]
    /\ wphase = [w \in Workers |-> "none"]
    /\ queue = <<>>
    /\ unfinished = 0
    /\ dpc = "submit"
    /\ frame = 1
    /\ actors = DemoScene
    /\ player = 1
    /\ packets = <<>>
    /\ counter = 0
    /\ submitted = <<>>
    /\ exec_count = [j \in JobIds |-> 0]
    /\ completed = {}
    /\ faulted = {}
    /\ drained = {}
    /\ frame_base = actors
    /\ synced_base = actors
    /\ syncs = 0
    /\ joins = 0
    /\ frame_jobs = <<>>
    /\ WeaponManagerInit
    /\ player_direction = StraightAhead
    /\ clock = ClockStart
    /\ chests = <<>>

\* job_system.add_job(body)
PoolAddJob(body) ==
    /\ dpc = "submit"
    /\ Len(frame_jobs) < MaxJobs
    /\ add_job(body, 0)
    /\ UNCHANGED <<dpc, frame, packets, drained, frame_base, synced_base, syncs>>
    /\ UNCHANGED <<joins, counter, worker_vars, registry_vars, history_vars>>
    /\ UNCHANGED weapon_vars

\* job_system.wait_for_completion() is called: the driver blocks in join().
PoolDrain ==
    /\ dpc = "submit"
    /\ dpc' = "pool_join"
    /\ UNCHANGED <<frame, packets, submitted, drained, frame_base, synced_base>>
    /\ UNCHANGED <<syncs, joins, frame_jobs, queue, unfinished, counter>>
    /\ UNCHANGED <<worker_vars, registry_vars, history_vars>>
    /\ UNCHANGED weapon_vars

\* job_system.wait_for_completion() returns.
PoolJoinReturn ==
    /\ dpc = "pool_join"
    /\ join_may_return
    /\ drained' = 1..(next_id - 1)
    /\ joins' = joins + 1
    /\ IF frame < MaxBatches
       THEN frame' = frame + 1 /\ dpc' = "submit"
       ELSE frame' = frame /\ dpc' = "done"
    /\ frame_jobs' = <<>>
    /\ UNCHANGED <<packets, submitted, frame_base, synced_base, syncs>>
    /\ UNCHANGED <<queue, unfinished, counter>>
    /\ UNCHANGED <<worker_vars, registry_vars, history_vars>>
    /\ UNCHANGED weapon_vars

PoolJobBody(w) ==
    \/ IncrementRun(w)
    \/ RaiseRun(w)

PoolDriver ==
    \/ \E body \in JobBodies : PoolAddJob(body)
    \/ PoolDrain
    \/ PoolJoinReturn

PoolNext ==
    \/ PoolDriver
    \/ \E w \in Workers : WorkerLoop(w)
    \/ \E w \in Workers : PoolJobBody(w)

PoolSpec == PoolInit /\ [][PoolNext]_vars

\* The threads are scheduled by the operating system: a worker that can take
\* a step eventually takes one, and a driver whose join() can return resumes.
PoolFairSpec ==
    /\ PoolSpec
    /\ \A w \in Workers : WF_vars(WorkerLoop(w) \/ PoolJobBody(w))
    /\ WF_vars(PoolDriver)

\* --------------------------------------------------- the shutdown scenario
\* JobSystem has no shutdown method and no stop flag: the signal below is the
\* caller's decision to stop using the pool, recorded in the driver's
\* position alone, since the pool has no field to record it in.  It may come
\* while jobs are queued or running.
PoolShutdown ==
    /\ dpc \in {"submit", "done"}
    /\ dpc' = "shutdown"
    /\ frame_jobs' = <<>>
    /\ UNCHANGED <<frame, packets, submitted, drained, frame_base, synced_base>>
    /\ UNCHANGED <<syncs, joins, queue, unfinished, counter>>
    /\ UNCHANGED <<worker_vars, registry_vars, history_vars>>
    /\ UNCHANGED weapon_vars

\* job_system.add_job(body) called once the signal has been given: add_job
\* reads no flag and puts the item on the queue as before.
PoolAddJobAfterShutdown(body) ==
    /\ dpc = "shutdown"
    /\ Len(frame_jobs) < MaxJobs
    /\ next_id <= MaxIds
    /\ add_job(body, 0)
    /\ UNCHANGED <<dpc, frame, packets, drained, frame_base, synced_base, syncs>>
    /\ UNCHANGED <<joins, counter, worker_vars, registry_vars, history_vars>>
    /\ UNCHANGED weapon_vars

ShutdownNext ==
    \/ PoolDriver
    \/ PoolShutdown
    \/ \E body \in JobBodies : PoolAddJobAfterShutdown(body)
    \/ \E w \in Workers : WorkerLoop(w)
    \/ \E w \in Workers : PoolJobBody(w)

ShutdownSpec == PoolInit /\ [][ShutdownNext]_vars

\* The worker threads are scheduled by the operating system; the caller is
\* free never to signal shutdown and never to submit again.
ShutdownFairSpec ==
    /\ ShutdownSpec
    /\ \A w \in Workers : WF_vars(WorkerLoop(w) \/ PoolJobBody(w))

\* ----------------------------------------------------- the weapon scenario
\* The weapon test: the input handler calls switch_weapon and try_fire on one
\* WeaponManager from one thread while the wall clock advances.  Positions
\* here are the source's own numbers, since no physics step runs.
pool_vars == <<worker_vars, queue, unfinished, counter, driver_vars, history_vars,
               player>>

\* Mutant of cannot_fire_yet: a shot exactly one delay after the last is
\* still refused.
cannot_fire_yet_inclusive(current_time, last, rpm) ==
    (current_time - last) * TickMs * rpm <= 60000

\* fire_delay = 60.0 / weapon_data['rpm'];
\* if current_time - self.last_fire_time < fire_delay: return
\* with the times in ticks and both sides multiplied by 1000 * rpm.
cannot_fire_yet(current_time, last, rpm) ==
    (current_time - last) * TickMs * rpm < 60000

\* The names of the scenes for which name.startswith("OMEGA-BOT") holds.
BotNames == {"OMEGA-BOT-9000"}

\* np.sum((actor.position - start_pos)**2)
DistanceSq(a, b) ==
    (a[1] - b[1]) * (a[1] - b[1]) + (a[2] - b[2]) * (a[2] - b[2])
        + (a[3] - b[3]) * (a[3] - b[3])

\* The actors shoot_raycast may hit: named as a bot, alive, within 50 units.
Targets(reg, start_pos) ==
    {i \in 1..Len(reg) :
        /\ reg[i].name \in BotNames
        /\ reg[i].health > 0
        /\ DistanceSq(reg[i].position, start_pos) < 2500}

\* shoot_raycast: the registries it can leave.  Each target in turn is hit
\* with probability 0.7 and the first one hit loses damage health; if every
\* roll fails nothing changes.
shoot_raycast(reg, start_pos, damage) ==
    {reg} \cup {[reg EXCEPT ![i].health = @ - damage] : i \in Targets(reg, start_pos)}

\* for i in range(weapon_data['projectiles']): ... self.engine.shoot_raycast(...)
\* the registries n calls in a row can leave.
RECURSIVE fire_projectiles(_, _, _, _)
fire_projectiles(regs, start_pos, damage, n) ==
    IF n = 0 THEN regs
    ELSE fire_projectiles(UNION {shoot_raycast(r, start_pos, damage) : r \in regs},
                          start_pos, damage, n - 1)

\* Mutant of final_direction: the direction is re-normalized on both
\* branches, in place.
final_direction_renormalized(weapon_data, aim, draw) ==
    IF weapon_data.spread > 0
    THEN Normalized(VecAdd(aim, <<draw[1], draw[2], 0>>))
    ELSE Normalized(aim)

\* One iteration of the projectile loop.  With spread, draw is the pair
\* (offset_x, offset_y) of random.uniform(-spread, spread) values and
\* final_direction = player_direction + np.array([offset_x, offset_y, 0]), a
\* new array, then final_direction /= np.linalg.norm(final_direction);
\* without, final_direction = player_direction, the caller's array itself.
final_direction(weapon_data, aim, draw) ==
    IF weapon_data.spread > 0
    THEN Normalized(VecAdd(aim, <<draw[1], draw[2], 0>>))
    ELSE AsGiven(aim)

\* Mutant of raycast_calls: one hit-test per shot whatever the weapon.
raycast_calls_single(weapon_data, start_pos, aim, offsets) ==
    <<[start_pos |-> start_pos, damage |-> weapon_data.damage,
       direction |-> final_direction(weapon_data, aim, offsets[1])]>>

\* The arguments of the shoot_raycast calls one shot makes: the position the
\* caller passed, the direction of the iteration, the weapon's damage.
raycast_calls(weapon_data, start_pos, aim, offsets) ==
    [i \in 1..weapon_data.projectiles |->
        [start_pos |-> start_pos, damage |-> weapon_data.damage,
         direction |-> final_direction(weapon_data, aim, offsets[i])]]

\* The offset pairs the random draws of a shot are taken from, in half units
\* and within the shotgun's spread of 1.5: one pair where the direction is
\* not under study, two where it is.
FixedDraws == {<<3, 0 - 3>>}
SpreadDraws == {<<0, 0>>, <<3, 0 - 3>>}

TryFireAttempt(fired) ==
    [op |-> "try_fire", time |-> clock, arg |-> "none", weapon |-> active_weapon_id,
     before |-> last_fire_time, fired |-> fired, outcome |-> "none",
     aim |-> player_direction]

\* Mutant of try_fire: a refused shot restarts the cooldown.
try_fire_restarts_cooldown(draws) ==
    /\ LET weapon_data == WEAPON_MASTER_LIST[active_weapon_id]
           current_time == clock
           player_pos == actors[player].position
       IN IF cannot_fire_yet(current_time, last_fire_time, weapon_data.rpm)
          THEN /\ last_fire_time' = current_time
               /\ calls' = <<>>
               /\ attempt' = TryFireAttempt(FALSE)
               /\ UNCHANGED actors
          ELSE /\ last_fire_time' = current_time
               /\ actors' \in fire_projectiles({actors}, player_pos,
                                    weapon_data.damage, weapon_data.projectiles)
               /\ \E offsets \in [1..weapon_data.projectiles -> draws] :
                    calls' = raycast_calls(weapon_data, player_pos,
                                           player_direction, offsets)
               /\ attempt' = TryFireAttempt(TRUE)
    /\ UNCHANGED <<active_weapon_id, clock, chests, callers, player_direction>>
    /\ UNCHANGED pool_vars

\* WeaponManager.try_fire(player.position, player_direction), run by the one
\* thread that uses the manager, its random draws taken from draws.  Nothing
\* in it assigns to the caller's player_direction array or operates on it in
\* place.
try_fire(draws) ==
    /\ LET weapon_data == WEAPON_MASTER_LIST[active_weapon_id]
           current_time == clock
           player_pos == actors[player].position
       IN IF cannot_fire_yet(current_time, last_fire_time, weapon_data.rpm)
          THEN /\ calls' = <<>>
               /\ attempt' = TryFireAttempt(FALSE)
               /\ UNCHANGED <<last_fire_time, actors>>
          ELSE /\ last_fire_time' = current_time
               /\ actors' \in fire_projectiles({actors}, player_pos,
                                    weapon_data.damage, weapon_data.projectiles)
               /\ \E offsets \in [1..weapon_data.projectiles -> draws] :
                    calls' = raycast_calls(weapon_data, player_pos,
                                           player_direction, offsets)
               /\ attempt' = TryFireAttempt(TRUE)
    /\ UNCHANGED <<active_weapon_id, clock, chests, callers, player_direction>>
    /\ UNCHANGED pool_vars

SwitchAttempt(new_id, outcome) ==
    [op |-> "switch_weapon", time |-> clock, arg |-> new_id,
     weapon |-> active_weapon_id, before |-> last_fire_time, fired |-> FALSE,
     outcome |-> outcome, aim |-> player_direction]

\* WeaponManager.switch_weapon(new_id) of the weapon test: an id that is not
\* in the table gets an error line printed; nothing is raised or returned.
switch_weapon(new_id) ==
    /\ IF new_id \in DOMAIN WEAPON_MASTER_LIST
       THEN /\ active_weapon_id' = new_id
            /\ attempt' = SwitchAttempt(new_id, "switched")
       ELSE /\ active_weapon_id' = active_weapon_id
            /\ attempt' = SwitchAttempt(new_id, "printed")
    /\ calls' = <<>>
    /\ UNCHANGED <<last_fire_time, clock, chests, callers, actors,
                 player_direction>>
    /\ UNCHANGED pool_vars
    /\ UNCHANGED action_buttons

\* The longest stretch of time a run covers, in ticks.
MaxElapsed == 16

\* Time passes; the histories describe calls made at the current reading.
AdvanceClock ==
    /\ clock < MaxElapsed \/ (clock >= ClockStart /\ clock < ClockStart + MaxElapsed)
    /\ clock' = clock + 1
    /\ attempt' = NoAttempt
    /\ calls' = <<>>
    /\ UNCHANGED <<active_weapon_id, last_fire_time, chests, callers, actors,
                 player_direction>>
    /\ UNCHANGED pool_vars
    /\ UNCHANGED action_buttons

\* The pool is not part of the weapon test: one idle worker, nothing queued.
PoolUnused ==
    /\ num_workers = 1
    /\ wpc = [w \in Workers |-> IF w <= num_workers THEN "get" ELSE "unstarted"]
    /\ wjob = [w \in Workers |-> NoJob]
    /\ wi = [w \in Workers |-> 0]
    /\ wphase = [w \in Workers |-> "none"]
    /\ queue = <<>>
    /\ unfinished = 0
    /\ dpc = "input"
    /\ frame = 1
    /\ packets = <<>>
    /\ counter = 0
    /\ submitted = <<>>
    /\ exec_count = [j \in JobIds |-> 0]
    /\ completed = {}
    /\ faulted = {}
    /\ drained = {}
    /\ frame_base = actors
    /\ synced_base = actors
    /\ syncs = 0
    /\ joins = 0
    /\ frame_jobs = <<>>

\* The weapon test after construction, at a clock reading of the present day
\* or on a machine whose clock stands at the epoch.
FireInit ==
    /\ actors = ArenaScene
    /\ player = 1
    /\ PoolUnused
    /\ WeaponManagerInit
    /\ player_direction = StraightAhead
    /\ clock \in {0, ClockStart}
    /\ chests = <<>>

FireNext ==
    \/ try_fire(FixedDraws) /\ UNCHANGED action_buttons
    \/ \E new_id \in RequestedIds : switch_weapon(new_id)
    \/ AdvanceClock

FireSpec == FireInit /\ [][FireNext]_vars

\* -------------------------------------------------------- the aim scenario
\* try_fire called directly with aim vectors of the caller's choosing, its
\* random draws varying, within one reading of the clock: straight ahead,
\* the same direction twice as long, and a diagonal.
AimDirections ==
    {StraightAhead, <<0, 0, 0 - 2 * DirUnit>>, <<DirUnit, DirUnit, 0>>}

\* The caller fills its aim array before calling try_fire; the histories
\* describe calls made with the current aim.
TakeAim(d) ==
    /\ player_direction # d
    /\ player_direction' = d
    /\ calls' = <<>>
    /\ attempt' = NoAttempt
    /\ UNCHANGED <<active_weapon_id, last_fire_time, clock, chests, callers>>
    /\ UNCHANGED <<actors, pool_vars>>
    /\ UNCHANGED action_buttons

AimInit ==
    /\ actors = ArenaScene
    /\ player = 1
    /\ PoolUnused
    /\ WeaponManagerInit
    /\ player_direction = StraightAhead
    /\ clock = ClockStart
    /\ chests = <<>>

AimNext ==
    \/ try_fire(SpreadDraws) /\ UNCHANGED action_buttons
    \/ \E new_id \in RequestedIds : switch_weapon(new_id)
    \/ \E d \in AimDirections : TakeAim(d)

AimSpec == AimInit /\ [][AimNext]_vars

\* ----------------------------------------------- the concurrent-fire scenario
\* Two threads call try_fire on the same WeaponManager.  The method takes no
\* lock, so the threads interleave between its statements: the reads of
\* weapon_data and the clock, the fire-rate check, the assignment to
\* last_fire_time, and the projectile loop.

\* weapon_data = self.master_list[self.active_weapon_id];
\* current_time = time.time()
TryFireEnter(t) ==
    /\ callers[t].pc \in {"idle", "returned"}
    /\ callers' = [callers EXCEPT ![t] =
            [pc |-> "check", current_time |-> clock, weapon |-> active_weapon_id,
             fired |-> FALSE]]
    /\ UNCHANGED <<active_weapon_id, last_fire_time, clock, chests, calls, attempt,
                 player_direction>>
    /\ UNCHANGED <<actors, pool_vars>>
    /\ UNCHANGED action_buttons

\* if current_time - self.last_fire_time < fire_delay: return
TryFireCheck(t) ==
    /\ callers[t].pc = "check"
    /\ callers' = [callers EXCEPT ![t].pc =
            IF cannot_fire_yet(callers[t].current_time, last_fire_time,
                               WEAPON_MASTER_LIST[callers[t].weapon].rpm)
            THEN "returned" ELSE "set"]
    /\ UNCHANGED <<active_weapon_id, last_fire_time, clock, chests, calls, attempt,
                 player_direction>>
    /\ UNCHANGED <<actors, pool_vars>>
    /\ UNCHANGED action_buttons

\* self.last_fire_time = current_time
TryFireSet(t) ==
    /\ callers[t].pc = "set"
    /\ last_fire_time' = callers[t].current_time
    /\ callers' = [callers EXCEPT ![t].pc = "shoot"]
    /\ UNCHANGED <<active_weapon_id, clock, chests, calls, attempt,
                 player_direction>>
    /\ UNCHANGED <<actors, pool_vars>>
    /\ UNCHANGED action_buttons

\* the projectile loop, then the method returns having fired.
TryFireShoot(t) ==
    /\ callers[t].pc = "shoot"
    /\ LET weapon_data == WEAPON_MASTER_LIST[callers[t].weapon]
           player_pos == actors[player].position
       IN /\ actors' \in fire_projectiles({actors}, player_pos,
                               weapon_data.damage, weapon_data.projectiles)
          /\ \E offsets \in [1..weapon_data.projectiles -> FixedDraws] :
                calls' = raycast_calls(weapon_data, player_pos, player_direction,
                                       offsets)
    /\ callers' = [callers EXCEPT ![t].pc = "returned", ![t].fired = TRUE]
    /\ UNCHANGED <<active_weapon_id, last_fire_time, clock, chests, attempt,
                 player_direction>>
    /\ UNCHANGED pool_vars
    /\ UNCHANGED action_buttons

\* The stretch of time a run of the two threads covers, in ticks.
MaxRaceElapsed == 4

\* Time passes while the threads are wherever they are; the record of a call
\* that has returned is dropped.
RaceAdvanceClock ==
    /\ clock < ClockStart + MaxRaceElapsed
    /\ clock' = clock + 1
    /\ callers' = [t \in Callers |->
            IF callers[t].pc = "returned" THEN IdleCaller ELSE callers[t]]
    /\ UNCHANGED <<active_weapon_id, last_fire_time, chests, calls, attempt,
                 player_direction>>
    /\ UNCHANGED <<actors, pool_vars>>
    /\ UNCHANGED action_buttons

RaceInit ==
    /\ actors = ArenaScene
    /\ player = 1
    /\ PoolUnused
    /\ WeaponManagerInit
    /\ player_direction = StraightAhead
    /\ clock = ClockStart
    /\ chests = <<>>

RaceNext ==
    \/ \E t \in Callers : TryFireEnter(t)
    \/ \E t \in Callers : TryFireCheck(t)
    \/ \E t \in Callers : TryFireSet(t)
    \/ \E t \in Callers : TryFireShoot(t)
    \/ RaceAdvanceClock

RaceSpec == RaceInit /\ [][RaceNext]_vars

\* ------------------------------------------------------- the loot scenario
\* The map test: its own three-weapon table, its own WeaponManager whose
\* switch_weapon assigns whatever id it is given, and two loot chests.

\* WEAPON_MASTER_LIST of the map test.
LOOT_MASTER_LIST ==
    [id \in {"01_PLASMA_RIFLE", "02_OMEGA_SHOTGUN", "03_RAIL_CANNON"} |->
        WEAPON_MASTER_LIST[id]]

\* LootChest.__init__
LootChest(position, weapon_id) ==
    [position |-> position, weapon_id |-> weapon_id, is_open |-> FALSE,
     interaction_range |-> 3]

\* Mutant of setup_map: the first chest holds a weapon no table lists.
setup_map_unlisted ==
    <<LootChest(<<505, 1, 505>>, UnlistedId),
      LootChest(<<800, 5, 200>>, "03_RAIL_CANNON")>>

\* MapManager.setup_map
setup_map ==
    <<LootChest(<<505, 1, 505>>, "02_OMEGA_SHOTGUN"),
      LootChest(<<800, 5, 200>>, "03_RAIL_CANNON")>>

\* The registry of the map test: the player alone.
LootScene ==
    <<MockObject("MasterPlayer", <<495, 1, 500>>, <<0, 0, 0>>, FALSE, 100, FALSE)>>

\* Where the player stands when an interaction is tried: the start, exactly
\* interaction_range from the first chest, one unit further, on the first
\* chest, and on the second.
PlayerSpots ==
    {<<495, 1, 500>>, <<505, 1, 502>>, <<505, 1, 501>>, <<505, 1, 505>>,
     <<800, 5, 200>>}

\* Mutant of CanOpen: the chest does not look at is_open.
CanOpenAgain(chest, player_position) ==
    DistanceSq(player_position, chest.position)
        <= chest.interaction_range * chest.interaction_range

\* distance <= self.interaction_range and not self.is_open
CanOpen(chest, player_position) ==
    /\ DistanceSq(player_position, chest.position)
            <= chest.interaction_range * chest.interaction_range
    /\ ~chest.is_open

\* WeaponManager.switch_weapon(new_id) of the map test.
loot_switch_weapon(new_id) ==
    /\ active_weapon_id' = new_id
    /\ attempt' = SwitchAttempt(new_id, "switched")

\* a direct call of weapon_manager.switch_weapon(new_id)
LootSwitch(new_id) ==
    /\ loot_switch_weapon(new_id)
    /\ UNCHANGED <<last_fire_time, clock, chests, callers, calls, actors,
                 player_direction>>
    /\ UNCHANGED pool_vars
    /\ UNCHANGED action_buttons

\* InputManager.process_actions with the interact button down: the chests
\* are tried in order and the first that opens ends the loop; a chest that
\* is too far or already open changes nothing.
ProcessInteract ==
    /\ LET position == actors[player].position
           openable == {c \in 1..Len(chests) : CanOpen(chests[c], position)}
       IN IF openable = {}
          THEN UNCHANGED <<active_weapon_id, attempt, chests>>
          ELSE LET c == CHOOSE x \in openable : \A y \in openable : x <= y
               IN /\ loot_switch_weapon(chests[c].weapon_id)
                  /\ chests' = [chests EXCEPT ![c].is_open = TRUE]
    /\ UNCHANGED <<last_fire_time, clock, callers, calls, actors,
                 player_direction>>
    /\ UNCHANGED pool_vars
    /\ UNCHANGED action_buttons

\* process_movement and run_physics_step carry the player to another spot.
MovePlayer(spot) ==
    /\ actors[player].position # spot
    /\ actors' = [actors EXCEPT ![player].position = spot]
    /\ UNCHANGED weapon_vars
    /\ UNCHANGED pool_vars

LootInit ==
    /\ actors = LootScene
    /\ player = 1
    /\ PoolUnused
    /\ WeaponManagerInit
    /\ player_direction = StraightAhead
    /\ clock = ClockStart
    /\ chests = setup_map

LootNext ==
    \/ \E new_id \in RequestedIds : LootSwitch(new_id)
    \/ ProcessInteract
    \/ \E spot \in PlayerSpots : MovePlayer(spot)

LootSpec == LootInit /\ [][LootNext]_vars

\* ------------------------------------------------------- the input scenario
\* The InputManager of the weapon test drives the WeaponManager from key
\* presses and, once per frame, from process_actions; the chests of the map
\* test hand weapons over through the same switch_weapon entry point.  The
\* frames of the test loop follow each other without a sleep, so the clock
\* does not move between them.
WeaponKeys ==
    ("1" :> "01_PLASMA_RIFLE") @@ ("2" :> "02_OMEGA_SHOTGUN")
    @@ ("3" :> "03_RAIL_CANNON")

Keys == DOMAIN WeaponKeys \cup {"LMB"}

\* InputManager.on_key_press
on_key_press(key_code) ==
    IF key_code = "LMB"
    THEN /\ action_buttons' = [action_buttons EXCEPT !.shoot = TRUE]
         /\ UNCHANGED <<active_weapon_id, last_fire_time, clock, chests, callers,
                        player_direction, calls, attempt, actors>>
         /\ UNCHANGED pool_vars
    ELSE switch_weapon(WeaponKeys[key_code])

\* InputManager.on_key_release('LMB')
on_key_release ==
    /\ action_buttons' = [action_buttons EXCEPT !.shoot = FALSE]
    /\ UNCHANGED <<active_weapon_id, last_fire_time, clock, chests, callers,
                   player_direction, calls, attempt, actors>>
    /\ UNCHANGED pool_vars

\* Mutant of process_actions: the button is cleared only when the shot was
\* fired.
process_actions_clear_on_fire(draws) ==
    IF action_buttons.shoot
    THEN /\ try_fire(draws)
         /\ action_buttons' =
                IF /\ WEAPON_MASTER_LIST[active_weapon_id].mode # "AUTO"
                   /\ attempt'.fired
                THEN [action_buttons EXCEPT !.shoot = FALSE]
                ELSE action_buttons
    ELSE UNCHANGED vars

\* InputManager.process_actions, once per frame: with the shoot button set it
\* calls try_fire straight ahead, then clears the button unless the active
\* weapon's mode is AUTO.
process_actions(draws) ==
    IF action_buttons.shoot
    THEN /\ try_fire(draws)
         /\ action_buttons' =
                IF WEAPON_MASTER_LIST[active_weapon_id].mode # "AUTO"
                THEN [action_buttons EXCEPT !.shoot = FALSE]
                ELSE action_buttons
    ELSE UNCHANGED vars

InputInit ==
    /\ actors = LootScene
    /\ player = 1
    /\ PoolUnused
    /\ WeaponManagerInit
    /\ player_direction = StraightAhead
    /\ clock = ClockStart
    /\ chests = setup_map

InputNext ==
    \/ \E key_code \in Keys : on_key_press(key_code)
    \/ on_key_release
    \/ process_actions(FixedDraws)
    \/ ProcessInteract
    \/ \E spot \in PlayerSpots : MovePlayer(spot)

InputSpec == InputInit /\ [][InputNext]_vars

\* ------------------------------------------------- the replication scenario
\* A single-threaded script over one engine registry: it steps the physics,
\* fires hit-tests from the player's position, lets the player build walls
\* and asks the NetworkAuthorityManager of the replication module for the
\* packets.  dpc names the operation the script performed last.
MaxWalls == 2
MaxSyncs == 2

\* f"Wall_{builder.name}"
WallName ==
    ("MasterPlayer" :> "Wall_MasterPlayer")
    @@ ("OMEGA-BOT-9000" :> "Wall_OMEGA-BOT-9000")

\* BuildManager.build_wall: a static wall of build_health 100 two units in
\* front of the location, appended to the registry.
build_wall(reg, builder, location) ==
    Append(reg, MockObject(WallName[builder.name], VecAdd(location, <<0, 0, 2>>),
                           <<0, 0, 0>>, TRUE, 100, FALSE))

\* The damage of the hit-tests the script fires: a rifle round, a rail slug.
HitDamages ==
    {WEAPON_MASTER_LIST["01_PLASMA_RIFLE"].damage,
     WEAPON_MASTER_LIST["03_RAIL_CANNON"].damage}

replica_rest ==
    <<worker_vars, queue, unfinished, counter, submitted, drained, frame_base,
      synced_base, joins, frame_jobs, history_vars, player>>

\* engine.run_physics_step(dt), called by the script itself.
ReplicaFrame ==
    /\ frame <= MaxFrames
    /\ actors' = run_physics_step(actors)
    /\ frame' = frame + 1
    /\ dpc' = "frame"
    /\ UNCHANGED <<packets, syncs>>
    /\ UNCHANGED replica_rest
    /\ UNCHANGED weapon_vars

\* engine.shoot_raycast(player.position, direction, damage)
ReplicaHit ==
    /\ \E damage \in HitDamages :
        actors' \in shoot_raycast(actors, actors[player].position, damage)
    /\ dpc' = "hit"
    /\ UNCHANGED <<frame, packets, syncs>>
    /\ UNCHANGED replica_rest
    /\ UNCHANGED weapon_vars

\* process_actions with action_buttons['build'] set:
\* build_manager.build_wall(player, player.position)
ReplicaBuild ==
    /\ Len(actors) < Len(ArenaScene) + MaxWalls
    /\ actors' = build_wall(actors, actors[player], actors[player].position)
    /\ dpc' = "build"
    /\ UNCHANGED <<frame, packets, syncs>>
    /\ UNCHANGED replica_rest
    /\ UNCHANGED weapon_vars

\* Mutant of ReplicaSync: every other call lists the newest actors first.
ReplicaSyncAlternating ==
    /\ syncs < MaxSyncs
    /\ packets' = IF syncs % 2 = 0 THEN sync_all_actors(actors)
                  ELSE sync_newest_first(actors)
    /\ syncs' = syncs + 1
    /\ dpc' = "sync"
    /\ UNCHANGED <<frame, actors>>
    /\ UNCHANGED replica_rest
    /\ UNCHANGED weapon_vars

\* Mutant of ReplicaSync: the sync drops the actors without health from the
\* registry before it lists them.
ReplicaSyncPruning ==
    /\ syncs < MaxSyncs
    /\ actors' = SelectSeq(actors, LAMBDA a : a.health > 0)
    /\ packets' = sync_all_actors(actors')
    /\ syncs' = syncs + 1
    /\ dpc' = "sync"
    /\ UNCHANGED frame
    /\ UNCHANGED replica_rest
    /\ UNCHANGED weapon_vars

\* packets = network_manager.sync_all_actors()
ReplicaSync ==
    /\ syncs < MaxSyncs
    /\ packets' = sync_all_actors(actors)
    /\ syncs' = syncs + 1
    /\ dpc' = "sync"
    /\ UNCHANGED <<frame, actors>>
    /\ UNCHANGED replica_rest
    /\ UNCHANGED weapon_vars

ReplicaInit ==
    /\ actors = ArenaScene
    /\ player = 1
    /\ PoolUnused
    /\ WeaponManagerInit
    /\ player_direction = StraightAhead
    /\ clock = ClockStart
    /\ chests = <<>>

ReplicaNext ==
    \/ ReplicaFrame
    \/ ReplicaHit
    \/ ReplicaBuild
    \/ ReplicaSync

ReplicaSpec == ReplicaInit /\ [][ReplicaNext]_vars

\* ------------------------------------------------------------------ claims
QueuedJobs == {queue[i] : i \in 1..Len(queue)}
RunningJobs == {wjob[w] : w \in {v \in Workers : wpc[v] = "call"}}
OutstandingJobs == QueuedJobs \cup RunningJobs
OutstandingIds == {job.id : job \in OutstandingJobs}
LiveWorkers == {w \in Workers : wpc[w] \in {"get", "except", "call", "task_done"}}
NoRaisingJob == \A i \in 1..Len(submitted) : submitted[i].func # "raise"

\* C1 (barrier safety): every job enqueued before a wait_for_completion that
\* has returned was dequeued and run, and is neither queued nor running.
C1_BarrierSafety ==
    \A j \in drained : exec_count[j] >= 1 /\ j \notin OutstandingIds

\* A drain that returned after MaxJobs jobs were handed to a full pool.
C1_Witness ==
    joins >= 1 /\ Cardinality(drained) = MaxJobs /\ num_workers = MaxWorkers

\* The driver is blocked in join() and nothing can ever lower the count: no
\* body is running or waiting for its task_done, and what is queued has no
\* worker left to take it.
BarrierHung ==
    /\ dpc = "join"
    /\ unfinished > 0
    /\ \A w \in Workers : wpc[w] \notin {"call", "task_done"}
    /\ queue = <<>> \/ LiveWorkers = {}

\* C2 (fault isolation at the barrier): a job that raised leaves the frame's
\* barrier able to return, the faulted job counting as complete.
C2_FaultDoesNotHangDrain == faulted # {} => ~BarrierHung

\* C3 (worker survival): the workers able to take jobs are as many as the
\* pool was started with.
C3_WorkersSurvive == Cardinality(LiveWorkers) = num_workers

\* C4 (exactly-once execution): no job is dequeued twice, none before it was
\* enqueued, every job behind a returned drain was run once, and after a
\* drain of jobs that each increment the counter the counter is their number.
C4_ExactlyOnce ==
    /\ \A j \in JobIds :
        /\ exec_count[j] <= 1
        /\ j \in drained => exec_count[j] = 1
        /\ j >= next_id => exec_count[j] = 0
    /\ drained = 1..Len(submitted) => counter = Len(submitted)

\* MaxJobs increments by a full pool, all counted after the drain.
C4_Witness ==
    joins >= 1 /\ counter = MaxJobs /\ num_workers = MaxWorkers

\* C5 (drain liveness): with at least one worker, fair scheduling and no job
\* body that raises, a driver blocked in wait_for_completion eventually
\* resumes.
C5_DrainLiveness ==
    (dpc = "pool_join" /\ num_workers >= 1 /\ NoRaisingJob) ~> (dpc # "pool_join")

\* A drain of returning jobs that did return.
C5_Witness ==
    joins >= 1 /\ num_workers >= 1 /\ Len(submitted) = MaxJobs /\ NoRaisingJob

\* C6 (total order between frames): a job of frame F+1 is enqueued only after
\* F drains have returned, and whatever is queued or running belongs to the
\* frame the driver is in.
C6_FrameOrder ==
    /\ \A i \in 1..Len(submitted) : submitted[i].frame <= joins + 1
    /\ \A job \in OutstandingJobs : job.frame = frame

\* Jobs of the second frame outstanding, after the first frame's drain.
C6_Witness ==
    frame = 2 /\ joins = 1 /\ Len(queue) = 1 /\ RunningJobs # {}

\* C7 (replication after the barrier): when the driver is at sync_all_actors
\* nothing is queued or running and the frame's drain has returned; syncs
\* and drains alternate, and no job of a later frame exists before the sync.
C7_SyncAfterBarrier ==
    /\ dpc = "sync" => OutstandingJobs = {} /\ joins = frame
    /\ syncs <= joins /\ joins <= syncs + 1
    /\ \A i \in 1..Len(submitted) : submitted[i].frame <= syncs + 1

\* The driver at the second frame's sync.
C7_Witness ==
    dpc = "sync" /\ frame = 2 /\ syncs = 1 /\ Len(submitted) = 4

\* C8 (snapshot consistency): the packets of a sync are the projection of the
\* registry after the whole physics step of its frame, and a sync made before
\* the next frame's jobs are submitted would return the same packets.
C8_SnapshotConsistency ==
    /\ syncs > 0 =>
        packets = frame_loop_sync_all_actors(run_physics_step(synced_base))
    /\ (syncs > 0 /\ dpc \in {"frame_start", "done"}) =>
            frame_loop_sync_all_actors(actors) = packets

\* Two syncs made, the second over a registry the physics step has moved.
C8_Witness ==
    /\ syncs = 2
    /\ packets # frame_loop_sync_all_actors(synced_base)
    /\ Len(packets) = 2

\* The (actor, field) pairs the next step of worker w writes or reads.
PhysicsWrites(w) ==
    IF InPhysics(w) /\ wphase[w] = "move" THEN {<<wi[w], "position">>}
    ELSE IF /\ InPhysics(w) /\ wphase[w] = "visit" /\ wi[w] <= Len(actors)
            /\ actors[wi[w]].has_is_static /\ ~actors[wi[w]].is_static
         THEN {<<wi[w], "linear_velocity">>}
         ELSE {}

StreamingReads(w) ==
    IF wpc[w] = "call" /\ wjob[w].func = "streaming"
    THEN {<<wjob[w].arg, "position">>} ELSE {}

\* C9 (data-race freedom within a frame): no worker is about to write an
\* actor's field that another worker's job of the same frame is about to read.
C9_NoDataRace ==
    \A w1, w2 \in Workers :
        (w1 # w2 /\ wjob[w1].frame = wjob[w2].frame) =>
            PhysicsWrites(w1) \cap StreamingReads(w2) = {}

FuncCount(f) == Cardinality({i \in 1..Len(frame_jobs) : frame_jobs[i].func = f})
NumBots == Cardinality({i \in 1..Len(actors) : actors[i].is_bot})

AllSubmittedCompleted == \A i \in 1..Len(submitted) : submitted[i].id \in completed

\* C11 (empty drain): a driver in wait_for_completion when nothing was
\* submitted, or when task_done was called for everything submitted, can
\* return at once: its return waits for no step of any worker.
C11_EmptyDrain ==
    (dpc = "pool_join" /\ AllSubmittedCompleted) => ENABLED PoolJoinReturn

\* A drain that returned with nothing submitted on a pool with no worker.
C11_Witness ==
    joins >= 1 /\ submitted = <<>> /\ num_workers = 0

\* C12 (pool configuration): a pool asked for fewer than one worker does not
\* come into being, so nothing is ever enqueued on a pool that has no worker
\* to run it.
C12_NoPoolWithoutWorkers == num_workers < 1 => submitted = <<>>

\* C13 (submit after shutdown): once shutdown has been signalled no call of
\* add_job enqueues anything: the queue gains no item and no job is added to
\* those ever submitted.
C13_SubmitAfterShutdownRejected ==
    [][dpc = "shutdown" => (submitted' = submitted /\ Len(queue') <= Len(queue))]_vars

\* C14 (shutdown termination): once shutdown has been signalled every worker
\* eventually leaves its loop: no worker is left polling or running jobs.
C14_WorkersExitAfterShutdown == (dpc = "shutdown") ~> (LiveWorkers = {})

DelayElapsed(rpm, elapsed) == elapsed * TickMs * rpm >= 60000

\* C15 (fire-rate gate): a try_fire at current_time succeeds exactly when
\* current_time - last_fire_time is at least 60/rpm of the active weapon, a
\* successful one leaves last_fire_time at current_time, and so a successful
\* fire is at least 60/rpm after the one before it.
C15_FireRateGate ==
    attempt.op = "try_fire" =>
        /\ attempt.fired <=>
                DelayElapsed(WEAPON_MASTER_LIST[attempt.weapon].rpm, attempt.time - attempt.before)
        /\ attempt.fired => last_fire_time = attempt.time
        /\ ~attempt.fired => last_fire_time = attempt.before

\* A shotgun shot made exactly 14 ticks after another shot: the first tick
\* at which 60/90 s have passed.
C15_Witness ==
    /\ attempt.op = "try_fire" /\ attempt.fired
    /\ attempt.weapon = "02_OMEGA_SHOTGUN"
    /\ attempt.before > 0
    /\ attempt.time - attempt.before = 14

Cooling ==
    ~DelayElapsed(WEAPON_MASTER_LIST[active_weapon_id].rpm, clock - last_fire_time)

\* C17 (cooling no-op): a try_fire made while less than 60/rpm has passed
\* since last_fire_time leaves last_fire_time, active_weapon_id and the
\* registry as they were and makes no shoot_raycast call.
C17_CoolingNoOp ==
    [][(try_fire(FixedDraws) /\ Cooling) =>
            /\ UNCHANGED <<last_fire_time, active_weapon_id, actors>>
            /\ calls' = <<>>
            /\ ~attempt'.fired]_vars

\* A shotgun shot refused 13 ticks after a shot that was fired, one tick
\* short of the delay.
C17_Witness ==
    /\ attempt.op = "try_fire" /\ ~attempt.fired
    /\ attempt.weapon = "02_OMEGA_SHOTGUN"
    /\ attempt.before > 0
    /\ attempt.time - attempt.before = 13
    /\ last_fire_time = attempt.before
    /\ calls = <<>>

\* C18 (no double fire): of two try_fire calls on the same manager that
\* overlap, made with the same weapon at times closer together than 60/rpm,
\* at most one fires.
C18_NoDoubleFire ==
    \A t1, t2 \in Callers :
        (/\ t1 # t2
         /\ callers[t1].fired /\ callers[t2].fired
         /\ callers[t1].weapon = callers[t2].weapon
         /\ callers[t1].current_time <= callers[t2].current_time) =>
            DelayElapsed(WEAPON_MASTER_LIST[callers[t1].weapon].rpm,
                         callers[t2].current_time - callers[t1].current_time)

\* C19 (unknown weapon): a switch_weapon call with an id that is not a key of
\* the manager's weapon table leaves active_weapon_id and last_fire_time as
\* they were and reports UnknownWeapon to its caller.
C19_UnknownWeaponRejected ==
    (attempt.op = "switch_weapon" /\ attempt.arg \notin DOMAIN LOOT_MASTER_LIST) =>
        /\ active_weapon_id = attempt.weapon
        /\ last_fire_time = attempt.before
        /\ attempt.outcome = "UnknownWeapon"

\* C20 (projectile count): a try_fire that fires calls shoot_raycast once per
\* projectile of the active weapon (8 for the shotgun with spread 1.5, 1 for
\* the single-projectile weapons), each time with the wielder's position and
\* the weapon's damage; a try_fire that does not fire calls it zero times.
C20_ProjectileCount ==
    attempt.op = "try_fire" =>
        LET weapon_data == WEAPON_MASTER_LIST[attempt.weapon] IN
        /\ attempt.fired =>
            /\ Len(calls) = weapon_data.projectiles
            /\ attempt.weapon = "02_OMEGA_SHOTGUN" => Len(calls) = 8
            /\ attempt.weapon # "02_OMEGA_SHOTGUN" => Len(calls) = 1
            /\ \A i \in 1..Len(calls) :
                /\ calls[i].start_pos = actors[player].position
                /\ calls[i].damage = weapon_data.damage
        /\ ~attempt.fired => Len(calls) = 0

\* A shotgun shot of eight hit-tests, seven of which hit the bot.
C20_Witness ==
    /\ attempt.op = "try_fire" /\ attempt.fired
    /\ attempt.weapon = "02_OMEGA_SHOTGUN"
    /\ Len(calls) = 8
    /\ actors[2].health = 100 - 7 * 15

\* The squared length of a vector, and whether a direction handed to
\* shoot_raycast has length one.
LengthSq(v) == DistanceSq(v, <<0, 0, 0>>)
IsUnit(dir) ==
    IF dir.normalized THEN dir.vec # <<0, 0, 0>>
    ELSE LengthSq(dir.vec) = DirUnit * DirUnit

\* C21 (unit directions): every direction a try_fire passes to shoot_raycast
\* has unit length, with and without spread, whatever non-zero aim vector the
\* caller passed.
C21_UnitDirections ==
    \A i \in 1..Len(calls) : IsUnit(calls[i].direction)

\* C22 (zero spread): a try_fire that fires a weapon of one projectile and
\* spread 0 calls shoot_raycast exactly once, with the very direction the
\* caller passed, and the caller's aim vector is what it was before the call.
C22_ZeroSpread ==
    (attempt.op = "try_fire" /\ attempt.fired) =>
        LET weapon_data == WEAPON_MASTER_LIST[attempt.weapon] IN
        (weapon_data.projectiles = 1 /\ weapon_data.spread = 0) =>
            /\ Len(calls) = 1
            /\ calls[1].direction = AsGiven(attempt.aim)
            /\ player_direction = attempt.aim

\* The rail cannon fired along an aim vector of length two.
C22_Witness ==
    /\ attempt.op = "try_fire" /\ attempt.fired
    /\ attempt.weapon = "03_RAIL_CANNON"
    /\ attempt.aim = <<0, 0, 0 - 2 * DirUnit>>
    /\ Len(calls) = 1
    /\ calls[1].direction.vec = <<0, 0, 0 - 2 * DirUnit>>
    /\ player_direction = <<0, 0, 0 - 2 * DirUnit>>

\* C23 (packet order): a sync returns one packet per actor of the registry,
\* the i-th packet carrying the name of the i-th actor in insertion order.
C23_PacketOrder ==
    dpc = "sync" =>
        /\ Len(packets) = Len(actors)
        /\ \A i \in 1..Len(actors) : packets[i].id = actors[i].name

\* A sync over the player, the bot and a wall built after them.
C23_Witness ==
    /\ dpc = "sync"
    /\ Len(actors) = 3
    /\ <<packets[1].id, packets[2].id, packets[3].id>>
        = <<"MasterPlayer", "OMEGA-BOT-9000", "Wall_MasterPlayer">>

\* The actors that are alive.
LiveActors == {i \in 1..Len(actors) : actors[i].health > 0}

\* C24 (packet count): after any sequence of frames, hits and builds the
\* list a sync returns is as long as the number of live actors, an actor
\* whose health has dropped to 0 or below having left the registry.
C24_PacketCount ==
    dpc = "sync" =>
        /\ Len(packets) = Cardinality(LiveActors)
        /\ \A i \in 1..Len(actors) : actors[i].health > 0

C26_SyncReadOnly ==
    [][ReplicaSync => (actors' = actors /\ player' = player)]_vars

\* A sync over a registry that holds a bot without health: the bot is still
\* there after it.
C26_Witness ==
    /\ dpc = "sync"
    /\ Len(packets) = 2
    /\ actors[2].name \in BotNames /\ actors[2].health <= 0

\* What a reader finds in a packet when the registry is reg.
PacketRead(packet, reg) ==
    [id |-> packet.id, pos |-> ListItems(packet.pos, reg),
     vel |-> ListItems(packet.vel, reg), health |-> packet.health,
     weapon |-> packet.weapon]

Received == [i \in 1..Len(packets) |-> PacketRead(packets[i], actors)]

\* C27 (packet non-aliasing): no operation on the registry made after a sync
\* (a physics step writing positions and velocities in place, a hit lowering
\* a health, a build) changes a field of a packet the sync produced.
C27_PacketNonAliasing ==
    [][(ReplicaFrame \/ ReplicaHit \/ ReplicaBuild) => Received' = Received]_vars

\* A physics step after the sync has moved the player and changed its
\* velocity, and a hit has wounded the bot; the packets still read as sent.
C27_Witness ==
    /\ syncs > 0 /\ dpc # "sync"
    /\ Len(packets) = 2
    /\ Received[1].pos # actors[1].position
    /\ Received[1].vel # actors[1].linear_velocity
    /\ Received[2].health # actors[2].health

PacketFields == {"id", "pos", "vel", "health", "weapon"}

\* C28 (packet shape): every packet the frame loop produces carries the five
\* fields id, pos, vel, health and weapon, each equal to the actor's field at
\* the sync point: name, position, linear velocity, health, active weapon id.
C28_PacketShape ==
    syncs > 0 =>
        \A i \in 1..Len(packets) :
            LET actor == run_physics_step(synced_base)[i] IN
            /\ PacketFields \subseteq DOMAIN packets[i]
            /\ packets[i].id = actor.name
            /\ ListItems(packets[i].pos, actors) = actor.position
            /\ ListItems(packets[i].vel, actors) = actor.linear_velocity
            /\ packets[i].health = actor.health
            /\ packets[i].weapon = getattr_weapon(actor)

\* C29 (streaming job is read-only): running update_streaming_lod on the
\* player's position changes no actor's position, no other field of any
\* actor, and nothing of the registry.
C29_StreamingReadOnly ==
    [][(\E w \in Workers : StreamingRun(w)) =>
            (actors' = actors /\ player' = player)]_vars

\* The streaming job of the second frame has returned before that frame's
\* physics job wrote anything.
C29_Witness ==
    /\ frame = 2
    /\ actors = frame_base
    /\ \E w \in Workers : wpc[w] = "task_done" /\ wjob[w].func = "streaming"

\* C30 (unique actor identity): no two actors of the registry share a name,
\* however many walls the same builder has built, frame after frame.
C30_UniqueNames ==
    \A i, j \in 1..Len(actors) : i # j => actors[i].name # actors[j].name

\* C31 (the demo frame loop completes): the loop over the demo's registry of
\* one player, run on a full pool, gets through every frame: each frame's
\* physics and streaming jobs complete, wait_for_completion returns, and the
\* loop reaches sync_all_actors in frames 1, 2 and 3.
C31_DemoLoopCompletes ==
    (frame = 1 /\ dpc = "frame_start" /\ actors = DemoScene
        /\ num_workers = MaxWorkers)
    ~> (dpc = "done" /\ syncs = MaxFrames)

\* The jobs whose execution is over: the body returned and was marked, or
\* the body raised.
ExecutedJobs == completed \cup faulted

\* C32 (outstanding count): the pool's count of outstanding jobs is the
\* number of jobs submitted minus the number marked complete, is never
\* negative, goes up by one per add_job and down by one per executed job, and
\* is zero when the drain has returned.
C32_OutstandingCount ==
    /\ unfinished = Len(submitted) - Cardinality(completed)
    /\ unfinished >= 0
    /\ unfinished = Len(submitted) - Cardinality(ExecutedJobs)
    /\ joins > 0 => unfinished = 0

\* Everything of an actor but its position and velocity.
Fixed(actor) ==
    [actor EXCEPT !.position = <<0, 0, 0>>, !.linear_velocity = <<0, 0, 0>>]

\* C33 (physics step frame condition): one physics step changes position and
\* velocity of no actor but those with is_static false; a static actor keeps
\* both, every actor keeps its health, weapon and other fields, and the
\* registry keeps its members and their order.
C33_PhysicsFrameCondition ==
    [][ReplicaFrame =>
        /\ Len(actors') = Len(actors)
        /\ \A i \in 1..Len(actors) :
            /\ Fixed(actors'[i]) = Fixed(actors[i])
            /\ actors[i].is_static => actors'[i] = actors[i]]_vars

\* A step taken over the player, a wounded bot and a wall: the player has
\* fallen, the wall stands where it was built.
C33_Witness ==
    /\ dpc = "frame"
    /\ Len(actors) = 3
    /\ actors[3].is_static /\ actors[3].position = <<0, 10, 2>>
    /\ actors[1].position[2] < 10
    /\ actors[2].health = 45

\* C34 (idle workers block): a worker that finds the queue empty takes no
\* step, neither a wake-up nor a retry, until a job is enqueued or shutdown
\* is signalled; the worker loop has no transition driven by a timeout.
C34_IdleWorkersBlock ==
    [][\A w \in Workers :
        (wpc[w] = "get" /\ queue = <<>>) =>
            \/ wpc'[w] = "get"
            \/ queue' # <<>>
            \/ dpc' = "shutdown"]_vars

\* C35 (active weapon validity): whatever switch_weapon calls key presses and
\* chest interactions have made, and whatever try_fire calls, the active
\* weapon id is a key of the weapon table, so try_fire's lookup succeeds.
C35_ActiveWeaponValid ==
    /\ active_weapon_id \in DOMAIN WEAPON_MASTER_LIST
    /\ active_weapon_id \in DOMAIN LOOT_MASTER_LIST

\* The first chest has handed over the shotgun and a try_fire has used it.
C35_Witness ==
    /\ chests[1].is_open
    /\ active_weapon_id = "02_OMEGA_SHOTGUN"
    /\ attempt.op = "try_fire" /\ attempt.weapon = "02_OMEGA_SHOTGUN"
    /\ attempt.fired

\* The chests the player stands within interaction_range of.
ChestsInReach ==
    {c \in 1..Len(chests) :
        DistanceSq(actors[player].position, chests[c].position)
            <= chests[c].interaction_range * chests[c].interaction_range}

\* C36 (a loot chest opens at most once): an interaction switches the weapon
\* only through a chest that is in reach and not open, and leaves that chest
\* open; an open chest stays open, and an interaction that finds only open
\* or distant chests leaves the active weapon and the chests as they were.
C36_ChestOpensOnce ==
    [][ProcessInteract =>
        LET closed_in_reach == {c \in ChestsInReach : ~chests[c].is_open} IN
        /\ \A c \in 1..Len(chests) : chests[c].is_open => chests'[c].is_open
        /\ \A c \in 1..Len(chests) :
            (chests'[c].is_open /\ ~chests[c].is_open) =>
                /\ c \in closed_in_reach
                /\ active_weapon_id' = chests[c].weapon_id
        /\ closed_in_reach = {} =>
            (active_weapon_id' = active_weapon_id /\ chests' = chests)]_vars

\* The player stands on the first chest, which is open, holding a weapon
\* other than the one the chest gave.
C36_Witness ==
    /\ chests[1].is_open
    /\ 1 \in ChestsInReach
    /\ active_weapon_id = "01_PLASMA_RIFLE"
    /\ attempt.op = "switch_weapon" /\ attempt.weapon = "02_OMEGA_SHOTGUN"

ActiveMode == WEAPON_MASTER_LIST[active_weapon_id].mode

\* C37 (shoot input by fire mode): a process_actions that finds the shoot
\* button set calls try_fire once; with a weapon whose mode is not AUTO the
\* button is clear afterwards whether or not the shot was fired, with an AUTO
\* weapon it stays set, and only on_key_release clears it then; a
\* process_actions that finds the button clear calls nothing.
C37_ShootByFireMode ==
    [][/\ (process_actions(FixedDraws) /\ action_buttons.shoot) =>
            /\ attempt'.op = "try_fire"
            /\ Len(calls') = IF attempt'.fired
                             THEN WEAPON_MASTER_LIST[active_weapon_id].projectiles
                             ELSE 0
            /\ ActiveMode # "AUTO" => ~action_buttons'.shoot
            /\ ActiveMode = "AUTO" => action_buttons'.shoot
       /\ (process_actions(FixedDraws) /\ ~action_buttons.shoot) =>
            (attempt' = attempt /\ calls' = calls)
       /\ (action_buttons.shoot /\ ~action_buttons'.shoot /\ ActiveMode = "AUTO")
            => on_key_release]_vars

\* The shotgun was tried right after another shot and refused; the press is
\* used up all the same.
C37_Witness ==
    /\ attempt.op = "try_fire" /\ ~attempt.fired
    /\ attempt.weapon = "02_OMEGA_SHOTGUN"
    /\ active_weapon_id = "02_OMEGA_SHOTGUN"
    /\ ~action_buttons.shoot
    /\ last_fire_time = clock

====
